---- MODULE Spec2Model ----
(***************************************************************************)
(* A model of the consultant booking service (consultantUser/views.py,     *)
(* consultantUser/models.py, consultantUser/serializers.py).               *)
(*                                                                         *)
(* The database tables are the state.  Every HTTP handler is a process;    *)
(* the handlers that issue more than one statement whose result another    *)
(* request can change (Reserve, Delete Availability) are split into one    *)
(* action per database statement, so that every interleaving the store     *)
(* allows is a behaviour of the model.  The store is a relational          *)
(* database at READ COMMITTED: a statement sees the rows committed when    *)
(* it starts, SELECT ... FOR UPDATE waits for a row locked by another      *)
(* transaction and then looks at the row again, and a transaction's        *)
(* writes become visible together at its commit.                           *)
(***************************************************************************)
EXTENDS Integers, FiniteSets, Sequences, TLC

\* ------------------------------------------------------------------ bounds
MaxConsultant == 1      \* Consultant rows ever created
MaxUser       == 1      \* User rows ever created
MaxAvail      == 2      \* Availability rows ever created
MaxToday      == 2      \* the clock stops at this day
MaxDate       == 3      \* dates a request can name: 1..MaxDate
MaxTime       == 2      \* times of day a request can name: 1..MaxTime
NumReserve    == 2      \* concurrent Reserve requests
NumDelete     == 1      \* concurrent Delete Availability requests
MaxRecurring  == 2      \* RecurringAvailability rows ever created

\* --------------------------------------------------------- program constants
HTTP_200_OK                    == 200
HTTP_201_CREATED               == 201
HTTP_204_NO_CONTENT            == 204
HTTP_400_BAD_REQUEST           == 400
HTTP_404_NOT_FOUND             == 404
HTTP_500_INTERNAL_SERVER_ERROR == 500

\* A request field holds a well-formed value (a natural number here), or is
\* absent from the request (request.data.get gives None), or holds text that
\* is no date, time or number.
ABSENT == 0 - 1
BAD    == 0 - 2

Dates == 1..MaxDate
Times == 1..MaxTime
ReserveCalls == 1..NumReserve
DeleteCalls  == 1..NumDelete

VARIABLES
    today,          \* timezone.now().date()
    Consultant,     \* ids of the Consultant table
    User,           \* ids of the User table
    Availability,   \* rows of the Availability table
    Booking,        \* committed rows of the Booking table
    nextAvail,      \* last id the Availability sequence gave out
    nextBooking,    \* last id the Booking sequence gave out
    reserve,        \* ReserveConsultantTimeView.post: one record per request
    del,            \* ConsultantDeleteAvailability.delete: one record per request
    last,           \* the last Create Availability request and its response
    ever,           \* history: the slots an Availability row was ever created for
    Recurring,      \* rows of the RecurringAvailability table
    result          \* the last response to a query or a template request, if no
                    \* write came after it

vars == <<today, Consultant, User, Availability, Booking, nextAvail, nextBooking,
          reserve, del, last, ever, Recurring, result>>

tables == <<Consultant, User, Availability, Booking>>

\* ------------------------------------------------------------ pure helpers

\* django.utils.dateparse.parse_date / parse_time: the value of a well-formed
\* text, None (ABSENT here) for a text that is no date; called with None it
\* raises TypeError, which HasValue below stands for.
parse_date(v) == IF v \in Nat THEN v ELSE ABSENT
parse_time(v) == IF v \in Nat THEN v ELSE ABSENT
HasValue(v) == v \in Nat

\* The rows an ORM filter on (consultant, date, start_time, end_time) matches.
Matching(pk, d, st, et) ==
    {a \in Availability : a.consultant = pk /\ a.date = d
                          /\ a.start_time = st /\ a.end_time = et}

OpenMatching(pk, d, st, et) == {a \in Matching(pk, d, st, et) : ~a.is_booked}

\* Booking.objects.filter(availability__consultant_id=..., availability__date=...,
\* availability__start_time=..., availability__end_time=...)
BookingsOf(pk, d, st, et) ==
    {b \in Booking : \E a \in Matching(pk, d, st, et) : b.availability = a.id}

AvailIds == {a.id : a \in Availability}
RowOf(id) == CHOOSE a \in Availability : a.id = id
Min(S) == CHOOSE x \in S : \A y \in S : x <= y

\* ------------------------------------------------------------------- Init

IdleReserve == [pc |-> "idle", pk |-> 0, user |-> 0, date |-> 0, start_time |-> 0,
                end_time |-> 0, cand |-> {}, slot |-> 0, booking |-> 0,
                status |-> 0, error |-> "", quiet |-> TRUE, raced |-> FALSE]

IdleDelete == [pc |-> "idle", pk |-> 0, date |-> 0, start_time |-> 0, end_time |-> 0,
               avail |-> 0, related |-> {}, status |-> 0]

NoRequest == [pk |-> 0, date |-> 0, start_time |-> 0, end_time |-> 0,
              is_booked |-> FALSE, status |-> 0, error |-> "", booked |-> {}]

\* No query has been answered since the last write.  data is the response
\* body (the serialized rows, in order); ids, the rows they were made from.
NoQuery == [op |-> "", args |-> <<>>, status |-> 0, data |-> <<>>, ids |-> <<>>]

Init ==
    /\ today = 1
    /\ Consultant = {}
    /\ User = {}
    /\ Availability = {}
    /\ Booking = {}
    /\ nextAvail = 0
    /\ nextBooking = 0
    /\ reserve = [r \in ReserveCalls |-> IdleReserve]
    /\ del = [d \in DeleteCalls |-> IdleDelete]
    /\ last = NoRequest
    /\ ever = {}
    /\ Recurring = {}
    /\ result = NoQuery

\* ------------------------------------------------------- ghost bookkeeping

InFlight(c) == c.pc \notin {"idle", "done"}

\* A committed change of Availability or Booking by Create or Delete: every
\* Reserve request in flight has been disturbed.
Disturbed(res) ==
    [q \in ReserveCalls |->
        IF InFlight(res[q]) THEN [res[q] EXCEPT !.quiet = FALSE] ELSE res[q]]

\* ------------------------------------------------------------- the clock

Tick ==
    /\ today < MaxToday
    /\ today' = today + 1
    /\ result' = NoQuery
    /\ UNCHANGED <<Consultant, User, Availability, Booking, nextAvail, nextBooking,
                   reserve, del, last, ever,
                   Recurring>>

\* ------------------------------------------------- users and consultants

\* UserCreateView.post with valid names: a new User row.
UserCreate ==
    /\ Cardinality(User) < MaxUser
    /\ User' = User \cup {Cardinality(User) + 1}
    /\ result' = NoQuery
    /\ UNCHANGED <<today, Consultant, Availability, Booking, nextAvail, nextBooking,
                   reserve, del, last, ever,
                   Recurring>>

\* ConsultantCreateView.post with valid names: a new Consultant row.
ConsultantCreate ==
    /\ Cardinality(Consultant) < MaxConsultant
    /\ Consultant' = Consultant \cup {Cardinality(Consultant) + 1}
    /\ result' = NoQuery
    /\ UNCHANGED <<today, User, Availability, Booking, nextAvail, nextBooking,
                   reserve, del, last, ever,
                   Recurring>>

\* ------------------------------------------------------ Create Availability

\* AvailabilitySerializer(...).is_valid(): the consultant exists and date,
\* start_time and end_time are a date and two times.  The serializer has no
\* validate method: nothing compares start_time with end_time.
AvailabilitySerializerValid(pk, d, st, et) ==
    /\ pk \in Consultant
    /\ HasValue(parse_date(d))
    /\ HasValue(parse_time(st))
    /\ HasValue(parse_time(et))

\* Mutant of CreateResponse: the date check written with < : today passes.
CreateResponseTodayAllowed(pk, d, st, et) ==
    IF pk \notin Consultant
      THEN [status |-> HTTP_404_NOT_FOUND, error |-> "Consultant not found"]
    ELSE IF ~HasValue(parse_date(d))
      THEN [status |-> HTTP_500_INTERNAL_SERVER_ERROR, error |-> "Failed to create"]
    ELSE IF parse_date(d) < today
      THEN [status |-> HTTP_400_BAD_REQUEST, error |-> "Only future dates are allowed"]
    ELSE IF ~AvailabilitySerializerValid(pk, d, st, et)
      THEN [status |-> HTTP_400_BAD_REQUEST, error |-> "serializer.errors"]
    ELSE [status |-> HTTP_201_CREATED, error |-> ""]

\* Mutant of CreateResponse: the date is checked before the consultant is
\* looked up.
CreateResponseDateFirst(pk, d, st, et) ==
    IF ~HasValue(parse_date(d))
      THEN [status |-> HTTP_500_INTERNAL_SERVER_ERROR, error |-> "Failed to create"]
    ELSE IF parse_date(d) <= today
      THEN [status |-> HTTP_400_BAD_REQUEST, error |-> "Only future dates are allowed"]
    ELSE IF pk \notin Consultant
      THEN [status |-> HTTP_404_NOT_FOUND, error |-> "Consultant not found"]
    ELSE IF ~AvailabilitySerializerValid(pk, d, st, et)
      THEN [status |-> HTTP_400_BAD_REQUEST, error |-> "serializer.errors"]
    ELSE [status |-> HTTP_201_CREATED, error |-> ""]

\* The response of ConsultantAvailableTimeCreateView.post.
CreateResponse(pk, d, st, et) ==
    IF pk \notin Consultant
      THEN [status |-> HTTP_404_NOT_FOUND, error |-> "Consultant not found"]
    ELSE IF ~HasValue(parse_date(d))
      \* parse_date(None) raises; None <= date raises: except Exception
      THEN [status |-> HTTP_500_INTERNAL_SERVER_ERROR, error |-> "Failed to create"]
    ELSE IF parse_date(d) <= today
      THEN [status |-> HTTP_400_BAD_REQUEST, error |-> "Only future dates are allowed"]
    ELSE IF ~AvailabilitySerializerValid(pk, d, st, et)
      THEN [status |-> HTTP_400_BAD_REQUEST, error |-> "serializer.errors"]
    ELSE [status |-> HTTP_201_CREATED, error |-> ""]

\* History: the booked rows of the consultant that overlap the slot asked for
\* (or are identical to it) when a Create Availability request is answered.
BookedOverlapping(pk, d, st, et) ==
    {a.id : a \in {x \in Availability :
                     /\ x.is_booked /\ x.consultant = pk /\ x.date = parse_date(d)
                     /\ x.start_time < parse_time(et)
                     /\ parse_time(st) < x.end_time}}

\* Mutant of CreateAvailability: the serializer is given request.data, so the
\* row takes the is_booked of the request.
CreateAvailabilityTrustsRequest(pk, d, st, et, ib) ==
    LET resp == CreateResponse(pk, d, st, et)
        ok == resp.status = HTTP_201_CREATED
    IN  /\ ok => nextAvail < MaxAvail
        /\ Availability' =
             IF ok THEN Availability \cup
                        {[id |-> nextAvail + 1, consultant |-> pk, date |-> parse_date(d),
                          start_time |-> parse_time(st), end_time |-> parse_time(et),
                          is_booked |-> ib]}
                   ELSE Availability
        /\ nextAvail' = IF ok THEN nextAvail + 1 ELSE nextAvail
        /\ reserve' = IF ok THEN Disturbed(reserve) ELSE reserve
        /\ last' = [pk |-> pk, date |-> d, start_time |-> st, end_time |-> et,
                    is_booked |-> ib, status |-> resp.status, error |-> resp.error,
                    booked |-> IF ok THEN BookedOverlapping(pk, d, st, et) ELSE {}]
        /\ result' = IF ok THEN NoQuery ELSE result
        /\ ever' = IF ok THEN ever \cup {<<pk, parse_date(d), parse_time(st), parse_time(et)>>}
                       ELSE ever
        /\ UNCHANGED <<today, Consultant, User, Booking, nextBooking, del, Recurring>>

\* views.py 66-104.  ib is request.data['is_booked'], which the handler never
\* reads: the serializer is given 'is_booked': False.
CreateAvailability(pk, d, st, et, ib) ==
    LET resp == CreateResponse(pk, d, st, et)
        ok == resp.status = HTTP_201_CREATED
    IN  /\ ok => nextAvail < MaxAvail
        /\ Availability' =
             IF ok THEN Availability \cup
                        {[id |-> nextAvail + 1, consultant |-> pk, date |-> parse_date(d),
                          start_time |-> parse_time(st), end_time |-> parse_time(et),
                          is_booked |-> FALSE]}
                   ELSE Availability
        /\ nextAvail' = IF ok THEN nextAvail + 1 ELSE nextAvail
        /\ reserve' = IF ok THEN Disturbed(reserve) ELSE reserve
        /\ last' = [pk |-> pk, date |-> d, start_time |-> st, end_time |-> et,
                    is_booked |-> ib, status |-> resp.status, error |-> resp.error,
                    booked |-> IF ok THEN BookedOverlapping(pk, d, st, et) ELSE {}]
        /\ result' = IF ok THEN NoQuery ELSE result
        /\ ever' = IF ok THEN ever \cup {<<pk, parse_date(d), parse_time(st), parse_time(et)>>}
                       ELSE ever
        /\ UNCHANGED <<today, Consultant, User, Booking, nextBooking, del, Recurring>>

\* ------------------------------------------------------------------ Reserve

\* The rows transaction r holds locked (SELECT ... FOR UPDATE, until commit
\* or rollback).
Locks(r) == IF reserve[r].pc \in {"save", "commit"} THEN {reserve[r].slot} ELSE {}

LockedByOther(id, r) == \E q \in ReserveCalls \ {r} : id \in Locks(q)

LockedByReserve(id) == \E q \in ReserveCalls : id \in Locks(q)

\* Booking rows inserted by a transaction still open.
PendingOn(id) == {q \in ReserveCalls : reserve[q].pc = "commit" /\ reserve[q].slot = id}

Finish(c, status, error) ==
    [c EXCEPT !.pc = "done", !.status = status, !.error = error,
              !.cand = {}, !.slot = 0, !.booking = 0]

SameSlot(c, pk, d, st, et) ==
    c.pk = pk /\ c.date = d /\ c.start_time = st /\ c.end_time = et

\* views.py 194-218: the required fields, the consultant, the user.  The
\* Consultant and User tables only grow, so the three reads are one step.
ReserveResolve(r, pk, u, d, st, et) ==
    /\ reserve[r].pc = "idle"
    /\ LET c == [IdleReserve EXCEPT !.pk = pk, !.user = u, !.date = d,
                                    !.start_time = st, !.end_time = et]
           racing == {q \in ReserveCalls \ {r} :
                        InFlight(reserve[q]) /\ SameSlot(reserve[q], pk, d, st, et)}
           mine ==
             IF ABSENT \in {u, d, st, et}
               THEN Finish(c, HTTP_400_BAD_REQUEST, "Missing required fields")
             ELSE IF pk \notin Consultant
               THEN Finish(c, HTTP_404_NOT_FOUND, "Consultant not found")
             ELSE IF u = BAD
               \* User.objects.get(id="abc") raises ValueError: except Exception
               THEN Finish(c, HTTP_500_INTERNAL_SERVER_ERROR, "Booking failed")
             ELSE IF u \notin User
               THEN Finish(c, HTTP_404_NOT_FOUND, "User not found")
             ELSE [c EXCEPT !.pc = "begin", !.raced = racing # {}]
       IN reserve' = [q \in ReserveCalls |->
                        IF q = r THEN mine
                        ELSE IF q \in racing /\ InFlight(mine)
                          THEN [reserve[q] EXCEPT !.raced = TRUE]
                        ELSE reserve[q]]
    /\ UNCHANGED <<today, Consultant, User, Availability, Booking, nextAvail,
                   nextBooking, del, last, ever,
                   Recurring, result>>

\* Mutant of ReserveCheckBooked: the existing-booking check is left out.
ReserveCheckBookedSkip(r) ==
    LET c == reserve[r] IN
    /\ c.pc = "begin"
    /\ reserve' = [reserve EXCEPT ![r] =
         IF BAD \in {c.date, c.start_time, c.end_time}
           THEN Finish(c, HTTP_400_BAD_REQUEST, "Validation error")
         ELSE [c EXCEPT !.pc = "select"]]
    /\ UNCHANGED <<today, Consultant, User, Availability, Booking, nextAvail,
                   nextBooking, del, last, ever,
                   Recurring, result>>

\* Mutant of ReserveCheckBooked: a call that finds the slot booked is not
\* answered, it tries again.
ReserveCheckBookedRetry(r) ==
    LET c == reserve[r] IN
    /\ c.pc = "begin"
    /\ reserve' = [reserve EXCEPT ![r] =
         IF BAD \in {c.date, c.start_time, c.end_time}
           THEN Finish(c, HTTP_400_BAD_REQUEST, "Validation error")
         ELSE IF BookingsOf(c.pk, c.date, c.start_time, c.end_time) # {}
           THEN [c EXCEPT !.pc = "begin"]
         ELSE [c EXCEPT !.pc = "select"]]
    /\ UNCHANGED <<today, Consultant, User, Availability, Booking, nextAvail,
                   nextBooking, del, last, ever,
                   Recurring, result>>

\* views.py 220-233: the transaction begins; "First check if this slot is
\* already booked", by (consultant, date, start_time, end_time).
ReserveCheckBooked(r) ==
    LET c == reserve[r] IN
    /\ c.pc = "begin"
    /\ reserve' = [reserve EXCEPT ![r] =
         IF BAD \in {c.date, c.start_time, c.end_time}
           \* the filter raises ValidationError
           THEN Finish(c, HTTP_400_BAD_REQUEST, "Validation error")
         ELSE IF BookingsOf(c.pk, c.date, c.start_time, c.end_time) # {}
           THEN Finish(c, HTTP_400_BAD_REQUEST, "This time slot is already booked")
         ELSE [c EXCEPT !.pc = "select"]]
    /\ UNCHANGED <<today, Consultant, User, Availability, Booking, nextAvail,
                   nextBooking, del, last, ever,
                   Recurring, result>>

\* views.py 236-242: the statement starts: its snapshot holds the open rows
\* of the slot, in id order (first() orders by pk).
ReserveSelect(r) ==
    LET c == reserve[r] IN
    /\ c.pc = "select"
    /\ reserve' = [reserve EXCEPT ![r] =
         [c EXCEPT !.pc = "lock",
                   !.cand = {a.id : a \in OpenMatching(c.pk, c.date, c.start_time,
                                                       c.end_time)}]]
    /\ UNCHANGED <<today, Consultant, User, Availability, Booking, nextAvail,
                   nextBooking, del, last, ever,
                   Recurring, result>>

\* Mutant of ReserveLock: the lookup takes a lock on the whole table, so it
\* waits while any other transaction holds any row.
ReserveLockTable(r) ==
    LET c == reserve[r] IN
    /\ c.pc = "lock"
    /\ c.cand # {} => ~\E q \in ReserveCalls \ {r} : Locks(q) # {}
    /\ reserve' = [reserve EXCEPT ![r] =
         IF c.cand = {}
           THEN Finish(c, HTTP_404_NOT_FOUND, "No available time slot found")
         ELSE IF Min(c.cand) \notin AvailIds \/ RowOf(Min(c.cand)).is_booked
           THEN [c EXCEPT !.cand = c.cand \ {Min(c.cand)}]
         ELSE [c EXCEPT !.pc = "save", !.slot = Min(c.cand), !.cand = {}]]
    /\ UNCHANGED <<today, Consultant, User, Availability, Booking, nextAvail,
                   nextBooking, del, last, ever,
                   Recurring, result>>

\* views.py 236-248: select_for_update().filter(...).first().  The statement
\* takes the first row of its snapshot; it waits while another transaction
\* holds the row locked, then looks at the row again and passes on to the
\* next one if the row is gone or is no longer open.
ReserveLock(r) ==
    LET c == reserve[r] IN
    /\ c.pc = "lock"
    /\ c.cand # {} => ~LockedByOther(Min(c.cand), r)
    /\ reserve' = [reserve EXCEPT ![r] =
         IF c.cand = {}
           THEN Finish(c, HTTP_404_NOT_FOUND, "No available time slot found")
         ELSE IF Min(c.cand) \notin AvailIds \/ RowOf(Min(c.cand)).is_booked
           THEN [c EXCEPT !.cand = c.cand \ {Min(c.cand)}]
         ELSE [c EXCEPT !.pc = "save", !.slot = Min(c.cand), !.cand = {}]]
    /\ UNCHANGED <<today, Consultant, User, Availability, Booking, nextAvail,
                   nextBooking, del, last, ever,
                   Recurring, result>>

\* models.py 40: availability = OneToOneField(...): at most one Booking row per
\* Availability.  The serializer's UniqueValidator reads the committed rows.
OneToOneTaken(id) == \E b \in Booking : b.availability = id

\* BookingSerializer(...).is_valid(): both keys resolve, and the availability
\* is not yet the availability of a Booking.
BookingSerializerValid(id, u) ==
    /\ id \in AvailIds
    /\ u \in User
    /\ ~OneToOneTaken(id)

\* views.py 251-257 and 271-274: is_valid(), then serializer.save() inserts the
\* Booking row (the unique index refuses a second row for the availability).
ReserveSave(r) ==
    LET c == reserve[r] IN
    /\ c.pc = "save"
    /\ IF ~BookingSerializerValid(c.slot, c.user)
         THEN /\ reserve' = [reserve EXCEPT ![r] =
                               Finish(c, HTTP_400_BAD_REQUEST, "serializer.errors")]
              /\ UNCHANGED nextBooking
       ELSE IF OneToOneTaken(c.slot) \/ PendingOn(c.slot) # {}
         THEN /\ reserve' = [reserve EXCEPT ![r] =
                               Finish(c, HTTP_500_INTERNAL_SERVER_ERROR, "Booking failed")]
              /\ UNCHANGED nextBooking
       ELSE /\ reserve' = [reserve EXCEPT ![r] =
                             [c EXCEPT !.pc = "commit", !.booking = nextBooking + 1]]
            /\ nextBooking' = nextBooking + 1
    /\ UNCHANGED <<today, Consultant, User, Availability, Booking, nextAvail, del, last, ever,
                   Recurring, result>>

\* Mutant of ReserveCommit: available_slot.save() is forgotten, the flag is
\* set on the instance only.
ReserveCommitNoFlip(r) ==
    LET c == reserve[r] IN
    /\ c.pc = "commit"
    /\ Booking' = Booking \cup
                    {[id |-> c.booking, availability |-> c.slot, user |-> c.user]}
    /\ reserve' = [reserve EXCEPT ![r] =
         [c EXCEPT !.pc = "done", !.status = HTTP_201_CREATED, !.error = ""]]
    /\ result' = NoQuery
    /\ UNCHANGED <<today, Consultant, User, Availability, nextAvail, nextBooking,
                   del, last, ever,
                   Recurring>>

\* views.py 258-269: available_slot.is_booked = True; available_slot.save();
\* the response is returned and the atomic block commits.
ReserveCommit(r) ==
    LET c == reserve[r] IN
    /\ c.pc = "commit"
    /\ Availability' = {IF a.id = c.slot THEN [a EXCEPT !.is_booked = TRUE] ELSE a :
                          a \in Availability}
    /\ Booking' = Booking \cup
                    {[id |-> c.booking, availability |-> c.slot, user |-> c.user]}
    /\ reserve' = [reserve EXCEPT ![r] =
         [c EXCEPT !.pc = "done", !.status = HTTP_201_CREATED, !.error = ""]]
    /\ result' = NoQuery
    /\ UNCHANGED <<today, Consultant, User, nextAvail, nextBooking, del, last, ever,
                   Recurring>>

\* views.py 220, 281-285: a statement of the transaction fails (the store
\* times out or is lost): the atomic block rolls back, except Exception
\* answers 500.
ReserveAbort(r) ==
    LET c == reserve[r] IN
    /\ c.pc \in {"save", "commit"}
    /\ reserve' = [reserve EXCEPT ![r] =
                     Finish(c, HTTP_500_INTERNAL_SERVER_ERROR, "Booking failed")]
    /\ UNCHANGED <<today, Consultant, User, Availability, Booking, nextAvail,
                   nextBooking, del, last, ever,
                   Recurring, result>>

\* Mutant of Reserve: the handler without select_for_update() and with the
\* Booking created on a plain foreign key: no row lock is waited for and no
\* uniqueness is checked.
ReserveLockNoWait(r) ==
    LET c == reserve[r] IN
    /\ c.pc = "lock"
    /\ reserve' = [reserve EXCEPT ![r] =
         IF c.cand = {}
           THEN Finish(c, HTTP_404_NOT_FOUND, "No available time slot found")
         ELSE IF Min(c.cand) \notin AvailIds \/ RowOf(Min(c.cand)).is_booked
           THEN [c EXCEPT !.cand = c.cand \ {Min(c.cand)}]
         ELSE [c EXCEPT !.pc = "save", !.slot = Min(c.cand), !.cand = {}]]
    /\ UNCHANGED <<today, Consultant, User, Availability, Booking, nextAvail,
                   nextBooking, del, last, ever,
                   Recurring, result>>

ReserveSaveNoUnique(r) ==
    LET c == reserve[r] IN
    /\ c.pc = "save"
    /\ reserve' = [reserve EXCEPT ![r] =
                     [c EXCEPT !.pc = "commit", !.booking = nextBooking + 1]]
    /\ nextBooking' = nextBooking + 1
    /\ UNCHANGED <<today, Consultant, User, Availability, Booking, nextAvail, del,
                   last, ever,
                   Recurring, result>>

ReserveUnguarded(r) ==
    \/ ReserveCheckBooked(r)
    \/ ReserveSelect(r)
    \/ ReserveLockNoWait(r)
    \/ ReserveSaveNoUnique(r)
    \/ ReserveCommit(r)

\* The steps of ReserveConsultantTimeView.post after the request is read.
Reserve(r) ==
    \/ ReserveCheckBooked(r)
    \/ ReserveSelect(r)
    \/ ReserveLock(r)
    \/ ReserveSave(r)
    \/ ReserveCommit(r)

\* ------------------------------------------------------ Delete Availability

\* views.py 295-300: Availability.objects.get(...).
DeleteGet(d, pk, date, st, et) ==
    /\ del[d].pc = "idle"
    /\ LET c == [IdleDelete EXCEPT !.pk = pk, !.date = date, !.start_time = st,
                                   !.end_time = et]
           m == Matching(pk, date, st, et)
       IN del' = [del EXCEPT ![d] =
            IF BAD \in {date, st, et}
              \* ValidationError: except Exception
              THEN [c EXCEPT !.pc = "done", !.status = HTTP_500_INTERNAL_SERVER_ERROR]
            ELSE IF m = {}
              THEN [c EXCEPT !.pc = "done", !.status = HTTP_404_NOT_FOUND]
            ELSE IF Cardinality(m) > 1
              \* MultipleObjectsReturned: except Exception
              THEN [c EXCEPT !.pc = "done", !.status = HTTP_500_INTERNAL_SERVER_ERROR]
            ELSE [c EXCEPT !.pc = "collect", !.avail = (CHOOSE a \in m : TRUE).id]]
    /\ UNCHANGED <<today, Consultant, User, Availability, Booking, nextAvail,
                   nextBooking, reserve, last, ever,
                   Recurring, result>>

\* views.py 302, models.py 40: availability.delete() first collects the
\* Booking rows that cascade (on_delete=CASCADE is carried out by the ORM).
DeleteCollect(d) ==
    /\ del[d].pc = "collect"
    /\ del' = [del EXCEPT ![d] =
         [@ EXCEPT !.pc = "delete",
                   !.related = {b.id : b \in {x \in Booking :
                                                x.availability = del[d].avail}}]]
    /\ UNCHANGED <<today, Consultant, User, Availability, Booking, nextAvail,
                   nextBooking, reserve, last, ever,
                   Recurring, result>>

\* Mutant of DeleteCommit: the slot is released instead of deleted: its
\* Booking rows go and is_booked is set back to False.
DeleteCommitUnbook(d) ==
    LET c == del[d] IN
    /\ c.pc = "delete"
    /\ ~LockedByReserve(c.avail)
    /\ del' = [del EXCEPT ![d] =
         [c EXCEPT !.pc = "done", !.avail = 0, !.related = {},
                   !.status = HTTP_204_NO_CONTENT]]
    /\ Availability' = {IF a.id = c.avail THEN [a EXCEPT !.is_booked = FALSE] ELSE a :
                          a \in Availability}
    /\ Booking' = {b \in Booking : b.id \notin c.related}
    /\ reserve' = Disturbed(reserve)
    /\ result' = NoQuery
    /\ UNCHANGED <<today, Consultant, User, nextAvail, nextBooking, last, ever,
                   Recurring>>

\* Mutant of DeleteCommit: the Availability row is deleted alone: nothing
\* cascades and no foreign key holds the Booking rows back.
DeleteCommitNoCascade(d) ==
    LET c == del[d] IN
    /\ c.pc = "delete"
    /\ ~LockedByReserve(c.avail)
    /\ del' = [del EXCEPT ![d] =
         [c EXCEPT !.pc = "done", !.avail = 0, !.related = {},
                   !.status = HTTP_204_NO_CONTENT]]
    /\ Availability' = {a \in Availability : a.id # c.avail}
    /\ reserve' = Disturbed(reserve)
    /\ result' = NoQuery
    /\ UNCHANGED <<today, Consultant, User, Booking, nextAvail, nextBooking, last,
                   ever, Recurring>>

\* views.py 302-318: availability.delete() deletes the collected Booking rows
\* and the Availability row in one transaction.  The DELETE waits for a row
\* lock; the foreign key of a Booking committed since the collection makes
\* the commit fail (IntegrityError: except Exception).
DeleteCommit(d) ==
    LET c == del[d]
        left == {b \in Booking : b.availability = c.avail /\ b.id \notin c.related}
    IN
    /\ c.pc = "delete"
    /\ ~LockedByReserve(c.avail)
    /\ IF left # {}
         THEN /\ del' = [del EXCEPT ![d] =
                   [c EXCEPT !.pc = "done", !.avail = 0, !.related = {},
                             !.status = HTTP_500_INTERNAL_SERVER_ERROR]]
              /\ UNCHANGED <<Availability, Booking, reserve, result>>
         ELSE /\ del' = [del EXCEPT ![d] =
                   [c EXCEPT !.pc = "done", !.avail = 0, !.related = {},
                             !.status = HTTP_204_NO_CONTENT]]
              /\ Availability' = {a \in Availability : a.id # c.avail}
              /\ Booking' = {b \in Booking : b.id \notin c.related}
              /\ reserve' = Disturbed(reserve)
              /\ result' = NoQuery
    /\ UNCHANGED <<today, Consultant, User, nextAvail, nextBooking, last, ever,
                   Recurring>>

Delete(d) ==
    \/ DeleteCollect(d)
    \/ DeleteCommit(d)

\* ------------------------------------------------------------------ queries

\* AvailabilitySerializer(rows, many=True).data: the fields of serializers.py
\* 17, in the order of the rows; the id is not among them.
Serialize(a) ==
    [consultant |-> a.consultant, start_time |-> a.start_time,
     end_time |-> a.end_time, date |-> a.date, is_booked |-> a.is_booked]

\* order_by(*keys): row a may come right before row b when, at the first key
\* on which they differ, a has the smaller value.
order_by(keys, a, b) ==
    \A i \in DOMAIN keys :
      (\A j \in 1..(i - 1) : a[keys[j]] = b[keys[j]]) => a[keys[i]] <= b[keys[i]]

\* The orders in which the store can return the rows S under ORDER BY keys:
\* every order of the rows with non-decreasing sort key.  The queries name no
\* further key, so the order of rows with equal keys is the store's choice.
Orderings(S, keys) ==
    {s \in [1..Cardinality(S) -> S] :
        /\ \A i, j \in 1..Cardinality(S) : i # j => s[i] # s[j]
        /\ \A i \in 1..(Cardinality(S) - 1) : order_by(keys, s[i], s[i + 1])}

\* The response of a query that found the rows s, in that order.
Found(op, args, s) ==
    [op |-> op, args |-> args, status |-> HTTP_200_OK,
     data |-> [i \in DOMAIN s |-> Serialize(s[i])],
     ids |-> [i \in DOMAIN s |-> s[i].id]]

Refused(op, args, status) ==
    [op |-> op, args |-> args, status |-> status, data |-> <<>>, ids |-> <<>>]

\* Mutant of ConsultantGetAvailability: order_by is left out.
ConsultantGetAvailabilityUnordered(pk) ==
    /\ IF pk \notin Consultant
         THEN result' = Refused("consultant", <<pk>>, HTTP_404_NOT_FOUND)
       ELSE \E s \in Orderings({a \in Availability : a.consultant = pk /\ ~a.is_booked},
                               <<>>) :
              result' = Found("consultant", <<pk>>, s)
    /\ UNCHANGED <<today, Consultant, User, Availability, Booking, nextAvail,
                   nextBooking, reserve, del, last, ever, Recurring>>

\* Mutant of ConsultantGetAvailability: the filter leaves out is_booked.
ConsultantGetAvailabilityAll(pk) ==
    /\ IF pk \notin Consultant
         THEN result' = Refused("consultant", <<pk>>, HTTP_404_NOT_FOUND)
       ELSE \E s \in Orderings({a \in Availability : a.consultant = pk}, <<"date", "start_time">>) :
              result' = Found("consultant", <<pk>>, s)
    /\ UNCHANGED <<today, Consultant, User, Availability, Booking, nextAvail,
                   nextBooking, reserve, del, last, ever, Recurring>>

\* views.py 112-132: the open slots of one consultant.
ConsultantGetAvailability(pk) ==
    /\ IF pk \notin Consultant
         THEN result' = Refused("consultant", <<pk>>, HTTP_404_NOT_FOUND)
       ELSE \E s \in Orderings({a \in Availability : a.consultant = pk /\ ~a.is_booked},
                               <<"date", "start_time">>) :
              result' = Found("consultant", <<pk>>, s)
    /\ UNCHANGED <<today, Consultant, User, Availability, Booking, nextAvail,
                   nextBooking, reserve, del, last, ever, Recurring>>

\* views.py 143-186: the open slots of all consultants on one date.  The body
\* also holds the date asked for and total_slots, the length of the list.
DailyAvailabilityView(date) ==
    /\ IF date = ABSENT
         THEN result' = Refused("daily", <<date>>, HTTP_400_BAD_REQUEST)
       ELSE IF ~HasValue(parse_date(date))
         \* raise ValueError("Invalid date format")
         THEN result' = Refused("daily", <<date>>, HTTP_400_BAD_REQUEST)
       ELSE IF parse_date(date) < today
         THEN result' = Refused("daily", <<date>>, HTTP_400_BAD_REQUEST)
       ELSE \E s \in Orderings({a \in Availability :
                                  a.date = parse_date(date) /\ ~a.is_booked}, <<"start_time">>) :
              result' = Found("daily", <<date>>, s)
    /\ UNCHANGED <<today, Consultant, User, Availability, Booking, nextAvail,
                   nextBooking, reserve, del, last, ever, Recurring>>

\* Python's calendar and datetime, as views.py 338-344 uses them.
MINYEAR == 1
MAXYEAR == 9999

isleap(year) == year % 4 = 0 /\ (year % 100 # 0 \/ year % 400 = 0)

mdays == <<31, 28, 31, 30, 31, 30, 31, 31, 30, 31, 30, 31>>

\* Mutant of monthrange: every February has 28 days.
monthrangeNoLeap(year, month) == mdays[month]

\* calendar.monthrange(year, month)[1]: the number of days of the month
monthrange(year, month) == mdays[month] + (IF month = 2 /\ isleap(year) THEN 1 ELSE 0)

RECURSIVE days_before_month(_, _)
days_before_month(year, month) ==
    IF month = 1 THEN 0
    ELSE days_before_month(year, month - 1) + monthrange(year, month - 1)

days_before_year(year) ==
    LET y == year - 1 IN y * 365 + (y \div 4) - (y \div 100) + (y \div 400)

\* date(year, month, day) as its proleptic Gregorian ordinal
ymd2ord(year, month, day) ==
    days_before_year(year) + days_before_month(year, month) + day

\* The dates of the model count days; day 0 is this calendar day, so that
\* the dates after today = 1 lie on both sides of the end of February 2024.
EpochDate == <<2024, 2, 27>>

\* A DateField value of the model as an ordinal.
toordinal(d) == ymd2ord(EpochDate[1], EpochDate[2], EpochDate[3]) + d

\* int(text): the number, or TypeError (None) or ValueError (no integer).
IsInt(v) == v \in Nat

\* views.py 326-358: the open slots of all consultants in one month.
MonthlyAvailabilityView(month, year) ==
    /\ IF ~IsInt(month) \/ ~IsInt(year)
         THEN result' = Refused("monthly", <<month, year>>, HTTP_400_BAD_REQUEST)
       ELSE IF ~(1 <= month /\ month <= 12)
         \* raise ValueError("Month must be between 1 and 12")
         THEN result' = Refused("monthly", <<month, year>>, HTTP_400_BAD_REQUEST)
       ELSE IF ~(MINYEAR <= year /\ year <= MAXYEAR)
         \* date(year, month, 1) raises ValueError
         THEN result' = Refused("monthly", <<month, year>>, HTTP_400_BAD_REQUEST)
       ELSE LET last_day == monthrange(year, month)
                start_date == ymd2ord(year, month, 1)
                end_date == ymd2ord(year, month, last_day)
            IN \E s \in Orderings({a \in Availability :
                                     /\ toordinal(a.date) >= start_date
                                     /\ toordinal(a.date) <= end_date
                                     /\ ~a.is_booked}, <<"date", "start_time">>) :
                 result' = Found("monthly", <<month, year>>, s)
    /\ UNCHANGED <<today, Consultant, User, Availability, Booking, nextAvail,
                   nextBooking, reserve, del, last, ever, Recurring>>

\* Mutant of TimeRangeAvailabilityView: the filter keeps the slots that
\* overlap the window (start_time__lt=end, end_time__gt=start).
TimeRangeAvailabilityViewOverlap(start_date, end_date, start_time, end_time) ==
    LET args == <<start_date, end_date, start_time, end_time>> IN
    /\ IF ABSENT \in {start_date, end_date, start_time, end_time}
         THEN result' = Refused("timerange", args, HTTP_400_BAD_REQUEST)
       ELSE IF \/ ~HasValue(parse_date(start_date)) \/ ~HasValue(parse_date(end_date))
               \/ ~HasValue(parse_time(start_time)) \/ ~HasValue(parse_time(end_time))
         THEN result' = Refused("timerange", args, HTTP_400_BAD_REQUEST)
       ELSE \E s \in Orderings({a \in Availability :
                                  /\ a.date >= parse_date(start_date)
                                  /\ a.date <= parse_date(end_date)
                                  /\ a.start_time < parse_time(end_time)
                                  /\ a.end_time > parse_time(start_time)
                                  /\ ~a.is_booked}, <<"date", "start_time">>) :
              result' = Found("timerange", args, s)
    /\ UNCHANGED <<today, Consultant, User, Availability, Booking, nextAvail,
                   nextBooking, reserve, del, last, ever, Recurring>>

\* views.py 366-407: the open slots inside a range of dates and a window of
\* times.
TimeRangeAvailabilityView(start_date, end_date, start_time, end_time) ==
    LET args == <<start_date, end_date, start_time, end_time>> IN
    /\ IF ABSENT \in {start_date, end_date, start_time, end_time}
         THEN result' = Refused("timerange", args, HTTP_400_BAD_REQUEST)
       ELSE IF \/ ~HasValue(parse_date(start_date)) \/ ~HasValue(parse_date(end_date))
               \/ ~HasValue(parse_time(start_time)) \/ ~HasValue(parse_time(end_time))
         \* raise ValueError("Invalid date or time format")
         THEN result' = Refused("timerange", args, HTTP_400_BAD_REQUEST)
       ELSE \E s \in Orderings({a \in Availability :
                                  /\ a.date >= parse_date(start_date)
                                  /\ a.date <= parse_date(end_date)
                                  /\ a.start_time >= parse_time(start_time)
                                  /\ a.end_time <= parse_time(end_time)
                                  /\ ~a.is_booked}, <<"date", "start_time">>) :
              result' = Found("timerange", args, s)
    /\ UNCHANGED <<today, Consultant, User, Availability, Booking, nextAvail,
                   nextBooking, reserve, del, last, ever, Recurring>>

\* ------------------------------------------------------- recurring templates

\* models.py 23-31: DAYS_OF_WEEK, the choices of day_of_week
DAYS_OF_WEEK == 0..6

\* RecurringAvailabilitySerializer(data=...).is_valid(): the consultant key
\* resolves, day_of_week is one of the choices, start_time and end_time are
\* times.  The serializer has no validate method: nothing compares
\* start_time with end_time.
RecurringAvailabilitySerializerValid(pk, dow, st, et) ==
    /\ pk \in Consultant
    /\ dow \in DAYS_OF_WEEK
    /\ HasValue(parse_time(st))
    /\ HasValue(parse_time(et))

\* views.py 417-438: RecurringAvailabilityView.post.  is_active is not in the
\* data: the row gets the default of models.py 36.
RecurringCreate(pk, dow, st, et) ==
    LET ok == RecurringAvailabilitySerializerValid(pk, dow, st, et) IN
    /\ ok => Cardinality(Recurring) < MaxRecurring
    /\ Recurring' =
         IF ok THEN Recurring \cup
                    {[id |-> Cardinality(Recurring) + 1, consultant |-> pk,
                      day_of_week |-> dow, start_time |-> parse_time(st),
                      end_time |-> parse_time(et), is_active |-> TRUE]}
               ELSE Recurring
    /\ result' = Refused("recurring_post", <<pk, dow, st, et>>,
                         IF ok THEN HTTP_201_CREATED ELSE HTTP_400_BAD_REQUEST)
    /\ UNCHANGED <<today, Consultant, User, Availability, Booking, nextAvail,
                   nextBooking, reserve, del, last, ever>>

\* views.py 440-446: RecurringAvailabilityView.get: the active templates of
\* the consultant, in the store's order (no order_by).
RecurringList(pk) ==
    /\ \E s \in Orderings({t \in Recurring : t.consultant = pk /\ t.is_active},
                          <<>>) :
         result' = [op |-> "recurring_get", args |-> <<pk>>, status |-> HTTP_200_OK,
                    data |-> [i \in DOMAIN s |->
                                [consultant |-> s[i].consultant,
                                 day_of_week |-> s[i].day_of_week,
                                 start_time |-> s[i].start_time,
                                 end_time |-> s[i].end_time,
                                 is_active |-> s[i].is_active]],
                    ids |-> [i \in DOMAIN s |-> s[i].id]]
    /\ UNCHANGED <<today, Consultant, User, Availability, Booking, nextAvail,
                   nextBooking, reserve, del, last, ever, Recurring>>

\* ---------------------------------------------------------- specifications

\* The slots the requests of Spec name: well-formed fields, one date after
\* today, the clock standing still.
SlotDate == MaxToday
SlotTimes == {<<t, t + 1>> : t \in Times}

\* The interleavings of Create, Reserve and Delete on those slots.
Next ==
    \/ UserCreate
    \/ ConsultantCreate
    \/ \E pk \in 1..MaxConsultant, t \in SlotTimes :
         CreateAvailability(pk, SlotDate, t[1], t[2], FALSE)
    \/ \E r \in ReserveCalls, pk \in 1..MaxConsultant, u \in 1..MaxUser, t \in SlotTimes :
         ReserveResolve(r, pk, u, SlotDate, t[1], t[2])
    \/ \E r \in ReserveCalls : Reserve(r)
    \/ \E x \in DeleteCalls, pk \in 1..MaxConsultant, t \in SlotTimes :
         DeleteGet(x, pk, SlotDate, t[1], t[2])
    \/ \E x \in DeleteCalls : Delete(x)

Spec == Init /\ [][Next]_vars

\* The same under fair scheduling: a worker whose next storage call can
\* return is eventually run (spec.md: the only suspension points are the
\* storage calls).  Requests arrive when they arrive; nothing forces them.
SpecLive == Init /\ [][Next]_vars /\ \A r \in ReserveCalls : WF_vars(Reserve(r))

\* The same with a store that can fail inside the transaction.
NextFault == Next \/ \E r \in ReserveCalls : ReserveAbort(r)

SpecFault == Init /\ [][NextFault]_vars

\* What a request field can hold: a value, nothing, or text that is no value.
FieldValues(S) == S \cup {ABSENT, BAD}

\* Create Availability with any fields, the clock running.
NextCreate ==
    \/ Tick
    \/ ConsultantCreate
    \/ \E pk \in 1..(MaxConsultant + 1), d \in FieldValues(Dates),
          st \in FieldValues(Times), et \in FieldValues(Times) :
         CreateAvailability(pk, d, st, et, FALSE)

SpecCreate == Init /\ [][NextCreate]_vars

\* Reserve with any consultant, any user and missing or malformed fields,
\* against slots created as in Spec.
NextRequest ==
    \/ UserCreate
    \/ ConsultantCreate
    \/ \E pk \in 1..MaxConsultant, t \in SlotTimes :
         CreateAvailability(pk, SlotDate, t[1], t[2], FALSE)
    \/ \E r \in ReserveCalls, pk \in 1..(MaxConsultant + 1),
          u \in FieldValues(1..(MaxUser + 1)), d \in FieldValues({SlotDate}),
          t \in SlotTimes :
         ReserveResolve(r, pk, u, d, t[1], t[2])
    \/ \E r \in ReserveCalls : Reserve(r)

SpecRequest == Init /\ [][NextRequest]_vars

\* The slots of one day that can overlap: every start_time < end_time among
\* the times and the next one.
OverlapTimes == {t \in (1..(MaxTime + 1)) \X (1..(MaxTime + 1)) : t[1] < t[2]}

\* Create Availability on identical and overlapping slots, with and without
\* is_booked in the request, among Reserve requests for those slots.
NextSlots ==
    \/ UserCreate
    \/ ConsultantCreate
    \/ \E pk \in 1..MaxConsultant, t \in OverlapTimes, ib \in BOOLEAN :
         CreateAvailability(pk, SlotDate, t[1], t[2], ib)
    \/ \E r \in ReserveCalls, pk \in 1..MaxConsultant, u \in 1..MaxUser,
          t \in OverlapTimes :
         ReserveResolve(r, pk, u, SlotDate, t[1], t[2])
    \/ \E r \in ReserveCalls : Reserve(r)

SpecSlots == Init /\ [][NextSlots]_vars

\* The dates after today while the clock stands at its first day.
LaterDates == 2..MaxDate

\* The queries among Create Availability requests on overlapping slots of the
\* later dates and one Reserve request.  The monthly query asks for the
\* months around the dates, the time range query for all dates and the
\* windows that end with the last time.
NextQuery ==
    \/ UserCreate
    \/ ConsultantCreate
    \/ \E pk \in 1..MaxConsultant, d \in LaterDates, t \in OverlapTimes :
         CreateAvailability(pk, d, t[1], t[2], FALSE)
    \/ \E pk \in 1..MaxConsultant, u \in 1..MaxUser, d \in LaterDates, t \in OverlapTimes :
         ReserveResolve(1, pk, u, d, t[1], t[2])
    \/ Reserve(1)
    \/ \E pk \in 1..(MaxConsultant + 1) : ConsultantGetAvailability(pk)
    \/ \E d \in FieldValues(0..MaxDate) : DailyAvailabilityView(d)
    \/ \E month \in {EpochDate[2], EpochDate[2] + 1} :
         MonthlyAvailabilityView(month, EpochDate[1])
    \/ \E st \in Times :
         TimeRangeAvailabilityView(1, MaxDate, st, MaxTime + 1)

SpecQuery == Init /\ [][NextQuery]_vars

\* The time range requests: every range of later dates with every window of
\* times, and the requests with one parameter missing or malformed.
RangeRequests ==
    LET T == 1..(MaxTime + 1)
        d == MaxDate
    IN (LaterDates \X LaterDates \X T \X T)
       \cup {<<x, d, 1, 2>> : x \in {ABSENT, BAD}} \cup {<<d, x, 1, 2>> : x \in {ABSENT, BAD}}
       \cup {<<d, d, x, 2>> : x \in {ABSENT, BAD}} \cup {<<d, d, 1, x>> : x \in {ABSENT, BAD}}

\* The time range query among Create Availability requests on overlapping
\* slots of the later dates and one Reserve request.
NextRange ==
    \/ UserCreate
    \/ ConsultantCreate
    \/ \E pk \in 1..MaxConsultant, d \in LaterDates, t \in OverlapTimes :
         CreateAvailability(pk, d, t[1], t[2], FALSE)
    \/ \E pk \in 1..MaxConsultant, u \in 1..MaxUser, d \in LaterDates, t \in OverlapTimes :
         ReserveResolve(1, pk, u, d, t[1], t[2])
    \/ Reserve(1)
    \/ \E q \in RangeRequests : TimeRangeAvailabilityView(q[1], q[2], q[3], q[4])

SpecRange == Init /\ [][NextRange]_vars

\* The months and years a monthly request can name: every month and the
\* numbers next to them; the year of the dates, the year before, and the
\* years next to the ones date() takes.
Months == 0..13
Years == {MINYEAR - 1, EpochDate[1] - 1, EpochDate[1], MAXYEAR + 1}

\* The monthly query, with any month and year, among Create Availability
\* requests on the later dates and one Reserve request.
NextMonth ==
    \/ UserCreate
    \/ ConsultantCreate
    \/ \E pk \in 1..MaxConsultant, d \in LaterDates :
         CreateAvailability(pk, d, 1, 2, FALSE)
    \/ \E pk \in 1..MaxConsultant, u \in 1..MaxUser, d \in LaterDates :
         ReserveResolve(1, pk, u, d, 1, 2)
    \/ Reserve(1)
    \/ \E month \in FieldValues(Months), year \in FieldValues(Years) :
         MonthlyAvailabilityView(month, year)

SpecMonth == Init /\ [][NextMonth]_vars

\* The days a recurring-template request can name: the first and the last
\* day of the week, the number after it, none, and one that is no number.
DayValues == FieldValues({0, 6, 7})

\* The recurring templates: requests with any day and any pair of times, for
\* a consultant that is there or not, and the list of a consultant.
NextRecurring ==
    \/ ConsultantCreate
    \/ \E pk \in 1..(MaxConsultant + 1), dow \in DayValues,
          st \in FieldValues(Times), et \in FieldValues(Times) :
         RecurringCreate(pk, dow, st, et)
    \/ \E pk \in 1..(MaxConsultant + 1) : RecurringList(pk)

SpecRecurring == Init /\ [][NextRecurring]_vars

\* ------------------------------------------------------------------ claims

Done(c) == c.pc = "done"
Succeeded(c) == Done(c) /\ c.status = HTTP_201_CREATED
BookingsOn(id) == {b \in Booking : b.availability = id}

\* C1: under every interleaving of Reserve, Create and Delete requests, an
\* Availability row is the availability of at most one Booking row, inserted
\* or committed, and at most one Reserve request ever answers 201 for the row.
C1_AtMostOneBooking ==
    \A id \in 1..nextAvail :
        /\ Cardinality(BookingsOn(id)) + Cardinality(PendingOn(id)) <= 1
        /\ Cardinality({r \in ReserveCalls :
                          Succeeded(reserve[r]) /\ reserve[r].slot = id}) <= 1

\* C1 witness: two Reserve requests were in flight together for one slot, one
\* has booked the row and the other has been refused.
C1_Witness ==
    \E r1 \in ReserveCalls, r2 \in ReserveCalls :
        /\ Succeeded(reserve[r1]) /\ reserve[r1].raced
        /\ Done(reserve[r2]) /\ reserve[r2].raced
        /\ reserve[r2].status # HTTP_201_CREATED
        /\ SameSlot(reserve[r2], reserve[r1].pk, reserve[r1].date,
                    reserve[r1].start_time, reserve[r1].end_time)
        /\ Cardinality(BookingsOn(reserve[r1].slot)) = 1

\* C2 (as stated): when two Reserve requests with an existing consultant and
\* existing users are in flight together for one slot that has an open
\* Availability row, and no Create or Delete commits meanwhile, then when the
\* second of them answers exactly one has answered 201, the other 404 or 400,
\* exactly one Booking of the slot exists and a row of the slot is booked.
\* (No Booking was there before them, so the rows of the slot were open.)
C2_Raced(r1, r2) ==
    LET c1 == reserve[r1]
        c2 == reserve[r2]
    IN  /\ r1 # r2
        /\ Done(c1) /\ Done(c2)
        /\ c1.raced /\ c2.raced /\ c1.quiet /\ c2.quiet
        /\ SameSlot(c2, c1.pk, c1.date, c1.start_time, c1.end_time)
        /\ \A r \in ReserveCalls \ {r1, r2} : reserve[r].pc = "idle"
        /\ \A d \in DeleteCalls : del[d].status # HTTP_204_NO_CONTENT
        /\ Matching(c1.pk, c1.date, c1.start_time, c1.end_time) # {}

C2_OneWon(r1, r2) ==
    LET c1 == reserve[r1]
        c2 == reserve[r2]
    IN  /\ Succeeded(c1) # Succeeded(c2)
        /\ \A c \in {c1, c2} :
             c.status \in {HTTP_201_CREATED, HTTP_404_NOT_FOUND, HTTP_400_BAD_REQUEST}
        /\ Cardinality(BookingsOf(c1.pk, c1.date, c1.start_time, c1.end_time)) = 1
        /\ \E a \in Matching(c1.pk, c1.date, c1.start_time, c1.end_time) : a.is_booked

C2_ExactlyOneWins ==
    [][\A r1 \in ReserveCalls, r2 \in ReserveCalls :
          (~(Done(reserve[r1]) /\ Done(reserve[r2])) /\ C2_Raced(r1, r2)')
              => C2_OneWon(r1, r2)']_vars

\* C3: is_booked never goes back: a row that is booked is booked in the next
\* state if it is still there, whatever the step.
C3_BookedStaysBooked ==
    [][\A a \in Availability : \A b \in Availability' :
          (a.is_booked /\ b.id = a.id) => b.is_booked]_vars

\* C3 witness: a row was booked and operations went on after it: a later
\* Reserve of its slot has been answered and a Delete request has run.
C3_Witness ==
    /\ \E a \in Availability : a.is_booked
    /\ \E r \in ReserveCalls :
         Done(reserve[r]) /\ reserve[r].error = "This time slot is already booked"
    /\ \E d \in DeleteCalls : del[d].pc = "done"

\* C4: in every committed state a row has is_booked exactly when one Booking
\* references it, and a transaction that fails after its lock, before or
\* after the Booking insert, leaves Availability and Booking as they were.
C4_Committed ==
    \A a \in Availability : a.is_booked <=> Cardinality(BookingsOn(a.id)) = 1

C4_AbortStep ==
    \E r \in ReserveCalls :
        /\ reserve[r].pc \in {"save", "commit"}
        /\ reserve'[r].pc = "done"
        /\ reserve'[r].status = HTTP_500_INTERNAL_SERVER_ERROR

C4_AllOrNothing ==
    /\ []C4_Committed
    /\ [][C4_AbortStep => UNCHANGED <<Availability, Booking>>]_vars

\* C4 witness: a transaction failed after it had inserted its Booking (the
\* sequence has moved on), no Booking is there and the row is still open.
C4_Witness ==
    /\ nextBooking > 0
    /\ Booking = {}
    /\ \E r \in ReserveCalls :
         /\ Done(reserve[r]) /\ reserve[r].status = HTTP_500_INTERNAL_SERVER_ERROR
         /\ OpenMatching(reserve[r].pk, reserve[r].date, reserve[r].start_time,
                         reserve[r].end_time) # {}

\* A request whose consultant and user resolved.
Resolved(c) ==
    c.error \notin {"Missing required fields", "Consultant not found", "User not found"}

\* Request r answers in this step.
Answers(r) == ~Done(reserve[r]) /\ Done(reserve'[r])

\* The request ran alone: no Create or Delete committed while it was in
\* flight and no other Reserve of its slot was in flight with it.
Alone(c) == Done(c) /\ Resolved(c) /\ c.quiet /\ ~c.raced

OpenFor(c) == OpenMatching(c.pk, c.date, c.start_time, c.end_time)
BookedFor(c) == BookingsOf(c.pk, c.date, c.start_time, c.end_time)

\* C5: a Reserve that ran alone, with consultant and user resolved, succeeds
\* when an open row of its slot exists: it is refused only when no open row
\* of its slot exists.
C5_SucceedsIfOpen ==
    [][\A r \in ReserveCalls :
          (Answers(r) /\ Alone(reserve[r])' /\ reserve'[r].status # HTTP_201_CREATED)
              => OpenFor(reserve[r])' = {}]_vars

\* What the handler does guarantee: a Reserve that ran alone, with consultant
\* and user resolved, succeeds when an open row of its slot exists and no
\* Booking exists for the slot: it then books an open row of the slot (Booking
\* inserted for the requesting user, is_booked set) and answers 201.  It
\* answers 404 only when no open row of the slot exists.
C5_Booked(c) ==
    \E a \in Availability :
        /\ a.id = c.slot /\ a.is_booked
        /\ a.consultant = c.pk /\ a.date = c.date
        /\ a.start_time = c.start_time /\ a.end_time = c.end_time
        /\ [id |-> c.booking, availability |-> a.id, user |-> c.user] \in Booking

C5_Outcome(r) ==
    LET c == reserve[r] IN
    /\ c.status = HTTP_201_CREATED => C5_Booked(c)
    /\ (c.status # HTTP_201_CREATED /\ BookedFor(c) = {}) =>
         /\ OpenFor(c) = {}
         /\ c.status = HTTP_404_NOT_FOUND
    /\ c.status = HTTP_404_NOT_FOUND => OpenFor(c) = {}

C5_SucceedsIfOpenAndUnbooked ==
    [][\A r \in ReserveCalls :
          (Answers(r) /\ Alone(reserve[r])') =>
              /\ C5_Outcome(r)'
              /\ reserve'[r].status = HTTP_201_CREATED =>
                   /\ \E a \in OpenFor(reserve[r]) : a.id = reserve[r].slot
                   /\ BookedFor(reserve[r]) = {}]_vars

\* C6: a Reserve (consultant and user resolved) of a slot that never had an
\* Availability row answers 404 'No available time slot found'; a Reserve
\* whose transaction starts when a Booking of its slot is committed answers
\* 400 'This time slot is already booked'; a Reserve that is refused changes
\* neither Availability nor Booking.
C6_NeverExisted ==
    \A r \in ReserveCalls :
        LET c == reserve[r] IN
        ( /\ Done(c) /\ Resolved(c)
          /\ <<c.pk, c.date, c.start_time, c.end_time>> \notin ever )
        => /\ c.status = HTTP_404_NOT_FOUND
           /\ c.error = "No available time slot found"

C6_Steps ==
    \A r \in ReserveCalls :
        /\ ( /\ reserve[r].pc = "begin" /\ reserve'[r].pc # "begin"
             /\ BookedFor(reserve[r]) # {} )
           => /\ reserve'[r].status = HTTP_400_BAD_REQUEST
              /\ reserve'[r].error = "This time slot is already booked"
        /\ (Answers(r) /\ reserve'[r].status # HTTP_201_CREATED)
           => UNCHANGED <<Availability, Booking>>

C6_Distinguishes == []C6_NeverExisted /\ [][C6_Steps]_vars

\* C6 witness: a slot was booked by one Reserve and a later Reserve of the
\* slot has been answered 400 'This time slot is already booked'.
C6_Witness ==
    \E r1 \in ReserveCalls, r2 \in ReserveCalls :
        /\ Succeeded(reserve[r1])
        /\ Done(reserve[r2]) /\ ~reserve[r2].raced
        /\ reserve[r2].status = HTTP_400_BAD_REQUEST
        /\ reserve[r2].error = "This time slot is already booked"
        /\ BookedFor(reserve[r2]) # {}

\* Request r is read in this step.
Arrives(r) == reserve[r].pc = "idle" /\ reserve'[r].pc # "idle"

\* Request c carries the four required fields.
Complete(c) == ABSENT \notin {c.user, c.date, c.start_time, c.end_time}

\* Request c names a consultant that does not exist, or a user id that is no
\* id of a User row (a number without a row, or no number at all).
Unresolvable(c) == c.pk \notin Consultant \/ c.user \notin User

\* C7: a Reserve that carries its fields and whose consultant_id or user_id
\* does not resolve answers 404 at once, before any slot lookup, and changes
\* neither Availability nor Booking, whether or not an open row of its slot
\* exists.
C7_NotFoundFirst ==
    [][\A r \in ReserveCalls :
          (Arrives(r) /\ Complete(reserve[r])' /\ Unresolvable(reserve[r])') =>
              /\ Done(reserve'[r])
              /\ reserve'[r].status = HTTP_404_NOT_FOUND
              /\ UNCHANGED <<Availability, Booking>>]_vars

\* What the handler does guarantee: a Reserve that carries its fields and
\* whose consultant does not exist, or whose user id is a number without a
\* User row, answers 404 at once and changes no table.
C7_NotFoundWhenNumeric ==
    [][\A r \in ReserveCalls :
          LET c == reserve'[r] IN
          ( /\ Arrives(r) /\ Complete(c)
            /\ (c.pk \notin Consultant \/ (c.user \in Nat /\ c.user \notin User)) ) =>
              /\ Done(c)
              /\ c.status = HTTP_404_NOT_FOUND
              /\ c.error \in {"Consultant not found", "User not found"}
              /\ UNCHANGED <<Availability, Booking>>]_vars

\* A Create Availability request is answered in this step; last' holds it.
Creates == last' # last \/ nextAvail' # nextAvail

NewRow(q) == [id |-> nextAvail', consultant |-> q.pk, date |-> q.date,
              start_time |-> q.start_time, end_time |-> q.end_time,
              is_booked |-> FALSE]

\* C8: Create Availability for an existing consultant with well-formed times
\* answers 400 'Only future dates are allowed' and adds no row when the date is
\* today or earlier, and answers 201 and adds exactly one row when it is later.
C8_FutureDatesOnly ==
    [][( /\ Creates
         /\ last'.pk \in Consultant
         /\ last'.date \in Nat /\ last'.start_time \in Nat /\ last'.end_time \in Nat )
       => IF last'.date <= today
            THEN /\ last'.status = HTTP_400_BAD_REQUEST
                 /\ last'.error = "Only future dates are allowed"
                 /\ Availability' = Availability
            ELSE /\ last'.status = HTTP_201_CREATED
                 /\ nextAvail' = nextAvail + 1
                 /\ NewRow(last') \notin Availability
                 /\ Availability' = Availability \cup {NewRow(last')}]_vars

\* C8 witness: a request dated today was refused after a request dated
\* tomorrow had created a row.
C8_Witness ==
    /\ last.date = today
    /\ last.pk \in Consultant
    /\ last.status = HTTP_400_BAD_REQUEST
    /\ last.error = "Only future dates are allowed"
    /\ \E a \in Availability : a.date = today + 1

\* C9 (as stated): every Availability row has start_time < end_time.
C9_StartBeforeEnd ==
    \A a \in Availability : a.start_time < a.end_time

\* C10: Create Availability for a consultant that does not exist answers 404
\* 'Consultant not found' and adds no row, whatever the other fields hold.
C10_NoConsultant ==
    [][(Creates /\ last'.pk \notin Consultant)
       => /\ last'.status = HTTP_404_NOT_FOUND
          /\ last'.error = "Consultant not found"
          /\ Availability' = Availability]_vars

\* C10 witness: a request with a malformed date for a consultant that does not
\* exist was answered 404 while other consultants have rows.
C10_Witness ==
    /\ last.pk \notin Consultant
    /\ last.date = BAD
    /\ last.status = HTTP_404_NOT_FOUND
    /\ Availability # {}

\* The row a well-formed Create Availability request asks for.
Asked(c, id) ==
    [id |-> id, consultant |-> c.pk, date |-> c.date, start_time |-> c.start_time,
     end_time |-> c.end_time, is_booked |-> FALSE]

\* C11: a Create Availability that answers 201 adds exactly one row, with a
\* new id, the fields of the request and is_booked = false whatever
\* is_booked the request holds, and changes no other Availability row and no
\* Booking; and a well-formed request for an existing consultant and a later
\* date answers 201 whatever rows exist, identical or overlapping ones,
\* booked or open, included.
C11_OneOpenRow ==
    [][Creates =>
         /\ last'.status = HTTP_201_CREATED =>
              /\ nextAvail' \notin AvailIds
              /\ Availability' = Availability \cup {Asked(last', nextAvail')}
              /\ Booking' = Booking
         /\ last'.status # HTTP_201_CREATED => Availability' = Availability
         /\ ( /\ last'.pk \in Consultant
              /\ last'.date \in Nat /\ last'.date > today
              /\ last'.start_time \in Nat /\ last'.end_time \in Nat )
            => last'.status = HTTP_201_CREATED]_vars

\* C11 witness: a request holding is_booked = true was answered 201 when a
\* booked row of the consultant overlapped its slot, and its row is open.
C11_Witness ==
    /\ last.status = HTTP_201_CREATED /\ last.is_booked /\ last.booked # {}
    /\ \E b \in Availability : b.id = nextAvail /\ ~b.is_booked

\* Delete request d is read in this step; it answers in this step.
DeleteArrives(d) == del[d].pc = "idle" /\ del'[d].pc # "idle"
DeleteAnswers(d) == del[d].pc # "done" /\ del'[d].pc = "done"

MatchingFor(c) == Matching(c.pk, c.date, c.start_time, c.end_time)

\* C12: a Delete Availability whose tuple no row matches answers 404 and
\* changes neither Availability nor Booking; one whose tuple a row matches,
\* booked or open, is not refused: it answers 204, and with that answer
\* exactly one row, a row of that tuple, has gone.
C12_DeletesIfMatching ==
    [][\A d \in DeleteCalls :
         /\ (DeleteArrives(d) /\ MatchingFor(del'[d]) = {}) =>
              /\ del'[d].pc = "done" /\ del'[d].status = HTTP_404_NOT_FOUND
              /\ UNCHANGED <<Availability, Booking>>
         /\ (DeleteArrives(d) /\ MatchingFor(del'[d]) # {}) => del'[d].pc # "done"
         /\ (DeleteAnswers(d) /\ ~DeleteArrives(d)) =>
              /\ del'[d].status = HTTP_204_NO_CONTENT
              /\ \E a \in MatchingFor(del[d]) : Availability' = Availability \ {a}]_vars

\* The four availability queries.
QueryOps == {"consultant", "daily", "monthly", "timerange"}

\* A query is answered in this step.
Queried == result' # result /\ result'.op \in QueryOps

\* The calendar days of the dates 1, 2, ... of the model.
Calendar == <<<<2024, 2, 28>>, <<2024, 2, 29>>, <<2024, 3, 1>>, <<2024, 3, 2>>,
              <<2024, 3, 3>>, <<2024, 3, 4>>>>

\* The rows the filter of answered query q asks for, open or booked.
Asks(q, a) ==
    CASE q.op = "consultant" -> a.consultant = q.args[1]
      [] q.op = "daily"      -> a.date = q.args[1]
      [] q.op = "monthly"    -> /\ Calendar[a.date][1] = q.args[2]
                                /\ Calendar[a.date][2] = q.args[1]
      [] q.op = "timerange"  -> /\ q.args[1] <= a.date /\ a.date <= q.args[2]
                                /\ a.start_time >= q.args[3]
                                /\ a.end_time <= q.args[4]

\* The response q lists exactly the rows of S, each once, as they are.
Lists(q, S) ==
    /\ Len(q.ids) = Cardinality(S) /\ Len(q.data) = Len(q.ids)
    /\ {q.ids[i] : i \in DOMAIN q.ids} = {a.id : a \in S}
    /\ \A i \in DOMAIN q.ids : \E a \in S : a.id = q.ids[i] /\ q.data[i] = Serialize(a)

\* C13: every query that answers 200 lists exactly the open rows its filter
\* asks for: no row in it is booked, a row a Reserve has booked is in no later
\* response, and no open row the filter asks for is missing.
C13_OnlyOpenAllOpen ==
    [][(Queried /\ result'.status = HTTP_200_OK) =>
         /\ Lists(result', {a \in Availability : Asks(result', a) /\ ~a.is_booked})
         /\ \A i \in DOMAIN result'.data : ~result'.data[i].is_booked
         /\ \A r \in ReserveCalls :
              Succeeded(reserve[r]) => \A i \in DOMAIN result'.ids :
                                          result'.ids[i] # reserve[r].slot]_vars

\* C13 witness: a query was answered after a Reserve had booked a row its
\* filter asks for; the response lists another row.
C13_Witness ==
    /\ result.op \in QueryOps /\ result.status = HTTP_200_OK /\ result.data # <<>>
    /\ \E r \in ReserveCalls, a \in Availability :
         /\ Succeeded(reserve[r]) /\ a.id = reserve[r].slot
         /\ a.is_booked /\ Asks(result, a)

\* C14: a query changes no row of any table, and a query that repeats the
\* one before it, no write having come between them, gets the same answer:
\* the same status and the same rows in the same order.
C14_ReadOnlyDeterministic ==
    [][Queried =>
         /\ UNCHANGED <<Consultant, User, Availability, Booking, Recurring>>
         /\ (result.op = result'.op /\ result.args = result'.args) =>
              /\ result'.status = result.status
              /\ result'.data = result.data]_vars

\* What the queries do guarantee: no query changes a row of any table, and a
\* repeated query gets the same status and the same rows, each as often.
C14_ReadOnlySameRows ==
    [][Queried =>
         /\ UNCHANGED <<Consultant, User, Availability, Booking, Recurring>>
         /\ (result.op = result'.op /\ result.args = result'.args) =>
              /\ result'.status = result.status
              /\ {result'.ids[i] : i \in DOMAIN result'.ids}
                   = {result.ids[i] : i \in DOMAIN result.ids}]_vars

\* C15: the response of the by-consultant query holds open slots of that
\* consultant only, each adjacent pair with date ascending and, on one date,
\* start_time non-decreasing; the response of the by-date query holds open
\* slots of that date only, each adjacent pair with start_time non-decreasing.
C15_Sorted ==
    [][(Queried /\ result'.status = HTTP_200_OK) =>
         LET q == result'
             n == Len(q.data)
         IN /\ q.op = "consultant" =>
                 /\ \A i \in 1..n : q.data[i].consultant = q.args[1] /\ ~q.data[i].is_booked
                 /\ \A i \in 1..(n - 1) :
                      \/ q.data[i].date < q.data[i + 1].date
                      \/ /\ q.data[i].date = q.data[i + 1].date
                         /\ q.data[i].start_time <= q.data[i + 1].start_time
            /\ q.op = "daily" =>
                 /\ \A i \in 1..n : q.data[i].date = q.args[1] /\ ~q.data[i].is_booked
                 /\ \A i \in 1..(n - 1) :
                      q.data[i].start_time <= q.data[i + 1].start_time]_vars

\* C15 witness: a by-consultant response lists a row created later before a
\* row created earlier, because its date is earlier.
C15_Witness ==
    /\ result.op = "consultant" /\ result.status = HTTP_200_OK
    /\ Len(result.data) >= 2
    /\ result.ids[1] > result.ids[2]
    /\ result.data[1].date < result.data[2].date

\* Row a lies inside the dates and inside the window of time range request q.
Contained(q, a) ==
    /\ q.args[1] <= a.date /\ a.date <= q.args[2]
    /\ q.args[3] <= a.start_time /\ a.end_time <= q.args[4]

\* C16: a time range response holds a row exactly when the row is open, its
\* date is within start_date..end_date, its start_time is not before the
\* window and its end_time not after it; a row that starts before the window
\* or ends after it is left out, though it overlaps the window.
C16_Containment ==
    [][(Queried /\ result'.op = "timerange" /\ result'.status = HTTP_200_OK) =>
         LET q == result'
             listed == {q.ids[i] : i \in DOMAIN q.ids}
         IN /\ \A a \in Availability :
                 a.id \in listed <=> (~a.is_booked /\ Contained(q, a))
            /\ \A a \in Availability :
                 (a.start_time < q.args[3] \/ a.end_time > q.args[4]) => a.id \notin listed
            /\ Len(q.ids) = Cardinality(listed)
            /\ \A i \in DOMAIN q.data :
                 /\ Contained(q, q.data[i]) /\ ~q.data[i].is_booked
                 /\ q.data[i] = Serialize(RowOf(q.ids[i]))]_vars

\* C16 witness: a time range response holds a slot that lies inside the
\* window and leaves out an open slot of the same date that starts before the
\* window and ends inside it.
C16_Witness ==
    /\ result.op = "timerange" /\ result.status = HTTP_200_OK
    /\ Len(result.data) = 1
    /\ \E a \in Availability :
         /\ ~a.is_booked /\ a.date = result.data[1].date
         /\ a.start_time < result.args[3]
         /\ result.args[3] < a.end_time /\ a.end_time <= result.args[4]

\* C17: a monthly request with an integer month in 1..12 and a year is
\* answered 200 with exactly the open rows whose date is a day of that month
\* of that year, from its first to its last calendar day; a request whose
\* month is an integer outside 1..12, or whose month or year is no integer,
\* is answered 400.
C17_WholeMonth ==
    [][(Queried /\ result'.op = "monthly") =>
         LET q == result'
             month == q.args[1]
             year == q.args[2]
             listed == {q.ids[i] : i \in DOMAIN q.ids}
         IN /\ ( /\ month \in 1..12
                 /\ year \in MINYEAR..MAXYEAR ) =>
                   /\ q.status = HTTP_200_OK
                   /\ Len(q.ids) = Cardinality(listed)
                   /\ \A a \in Availability :
                        a.id \in listed <=>
                          /\ ~a.is_booked
                          /\ Calendar[a.date][1] = year
                          /\ Calendar[a.date][2] = month
            /\ (month \notin Nat \/ year \notin Nat \/ month \notin 1..12) =>
                   /\ q.status = HTTP_400_BAD_REQUEST
                   /\ q.data = <<>>]_vars

\* C17 witness: the response for February 2024 lists a slot of 2024-02-29
\* and leaves out an open slot of 2024-03-01.
C17_Witness ==
    /\ result.op = "monthly" /\ result.status = HTTP_200_OK
    /\ result.args = <<2, 2024>>
    /\ \E i \in DOMAIN result.data : Calendar[result.data[i].date] = <<2024, 2, 29>>
    /\ \E a \in Availability :
         /\ ~a.is_booked /\ Calendar[a.date] = <<2024, 3, 1>>
         /\ \A i \in DOMAIN result.ids : result.ids[i] # a.id

\* C18: locking in Reserve is per row.  A call holds at most one row, the
\* candidate row of its lookup, and only between the lookup and the commit or
\* rollback; a call past its request checks can always take its next step,
\* except a lookup whose candidate row is the very row another call holds: a
\* call that holds a different row never makes it wait.
C18_PerRowLock ==
    \A r \in ReserveCalls :
      LET c == reserve[r] IN
      /\ Cardinality(Locks(r)) <= 1
      /\ Locks(r) # {} => c.pc \in {"save", "commit"} /\ Locks(r) \subseteq AvailIds
      /\ (InFlight(c) /\ ~ENABLED Reserve(r)) =>
           /\ c.pc = "lock"
           /\ c.cand # {}
           /\ \E q \in ReserveCalls \ {r} : Locks(q) = {Min(c.cand)}

\* C18 supplement: nor does such a call make it fail.  A Reserve call that is
\* answered 500 held a row whose Booking another call had inserted: the
\* failure comes from its own row.
C18_FailsOnOwnRowOnly ==
    [][\A r \in ReserveCalls :
         ( /\ reserve[r].pc # "done" /\ reserve'[r].pc = "done"
           /\ reserve'[r].status = HTTP_500_INTERNAL_SERVER_ERROR ) =>
             \E b \in Booking : b.availability = reserve[r].slot]_vars

\* C18 witness: two calls hold two different rows at the same time.
C18_Witness ==
    \E r, q \in ReserveCalls :
      /\ r # q
      /\ Locks(r) # {} /\ Locks(q) # {}
      /\ Locks(r) # Locks(q)

\* C19: under fair scheduling every Reserve call past its request checks is
\* answered, with one of the terminal outcomes; and an answered call is not
\* run again: its record never changes (no automatic retry).
C19_Terminates ==
    /\ \A r \in ReserveCalls :
         InFlight(reserve[r]) ~>
           ( /\ reserve[r].pc = "done"
             /\ reserve[r].status \in {HTTP_201_CREATED, HTTP_400_BAD_REQUEST,
                                       HTTP_404_NOT_FOUND,
                                       HTTP_500_INTERNAL_SERVER_ERROR} )
    /\ [][\A r \in ReserveCalls :
            reserve[r].pc = "done" => reserve'[r] = reserve[r]]_vars

\* C19 supplement: no deadlock.  Whenever calls are in progress, one of them
\* can take its next step.
C19_NoDeadlock ==
    (\E r \in ReserveCalls : InFlight(reserve[r])) =>
      \E r \in ReserveCalls : InFlight(reserve[r]) /\ ENABLED Reserve(r)

\* C19 witness: two calls raced for the same slot and both have been
\* answered: one booked the row, the other, whose lookup had the row as its
\* candidate, found no open row once the lock was released.
C19_Witness ==
    \E r, q \in ReserveCalls :
      /\ r # q
      /\ reserve[r].pc = "done" /\ reserve[q].pc = "done"
      /\ SameSlot(reserve[r], reserve[q].pk, reserve[q].date,
                  reserve[q].start_time, reserve[q].end_time)
      /\ reserve[q].status = HTTP_201_CREATED
      /\ reserve[r].status = HTTP_404_NOT_FOUND
      /\ reserve[r].error = "No available time slot found"
      /\ reserve[r].raced

\* C18 supplement: the waiting case happens.  A call waits, its candidate row
\* being held by another call.
C18_Waits ==
    \E r \in ReserveCalls : InFlight(reserve[r]) /\ ~ENABLED Reserve(r)

\* A recurring-template request is answered.
RecurringAnswered ==
    /\ result'.op = "recurring_post"
    /\ result' # result \/ Recurring' # Recurring

\* C20: a recurring-template request whose day_of_week is outside 0..6, or
\* whose start_time is not before its end_time, is answered 400 and stores
\* nothing; a request answered 201 stores one template, with is_active true;
\* so every stored template has day_of_week in 0..6 and start_time < end_time.
C20_ValidTemplates ==
    [][RecurringAnswered =>
         LET dow == result'.args[2]
             st == result'.args[3]
             et == result'.args[4]
         IN /\ ( \/ dow \notin 0..6
                 \/ (st \in Nat /\ et \in Nat /\ st >= et) ) =>
                   /\ result'.status = HTTP_400_BAD_REQUEST
                   /\ Recurring' = Recurring
            /\ result'.status = HTTP_201_CREATED =>
                   /\ Cardinality(Recurring' \ Recurring) = 1
                   /\ \A t \in Recurring' \ Recurring : t.is_active
            /\ \A t \in Recurring' :
                   t.day_of_week \in 0..6 /\ t.start_time < t.end_time]_vars

\* C20 supplement: what the handler does guarantee.  A day_of_week outside
\* 0..6 is answered 400 and stores nothing, a request answered 201 stores one
\* template with is_active true, and every stored template has its
\* day_of_week in 0..6.
C20_ValidDayActive ==
    [][RecurringAnswered =>
         /\ result'.args[2] \notin 0..6 =>
              /\ result'.status = HTTP_400_BAD_REQUEST
              /\ Recurring' = Recurring
         /\ result'.status = HTTP_201_CREATED =>
              /\ Cardinality(Recurring' \ Recurring) = 1
              /\ \A t \in Recurring' \ Recurring : t.is_active
         /\ \A t \in Recurring' : t.day_of_week \in 0..6]_vars

\* C21: a recurring-template request for a consultant that does not resolve
\* is answered 404 and stores no template.
C21_NoConsultantNotFound ==
    [][(RecurringAnswered /\ result'.args[1] \notin Consultant) =>
         /\ result'.status = HTTP_404_NOT_FOUND
         /\ Recurring' = Recurring]_vars

\* C21 supplement: what the handler does guarantee.  Such a request is
\* refused by the serializer, whose consultant field does not resolve: it is
\* answered 400, whatever its other fields, and stores no template.
C21_NoConsultantRefused ==
    [][(RecurringAnswered /\ result'.args[1] \notin Consultant) =>
         /\ result'.status = HTTP_400_BAD_REQUEST
         /\ Recurring' = Recurring]_vars

\* C22: referential integrity.  After every step of Create, Reserve and
\* Delete Availability each Booking references an Availability row that is
\* there; a Delete answered 204 removes the row and, with it, exactly the
\* Booking rows that reference it; and a Reserve answered "already booked"
\* names a tuple of which a row is there and has a Booking, never the Booking
\* of a row that was deleted.
C22_ReferentialIntegrity ==
    [][/\ \A b \in Booking' : b.availability \in AvailIds'
       /\ \A d \in DeleteCalls :
            (DeleteAnswers(d) /\ del'[d].status = HTTP_204_NO_CONTENT) =>
              /\ del[d].avail \in AvailIds
              /\ del[d].avail \notin AvailIds'
              /\ Booking \ Booking' = {b \in Booking : b.availability = del[d].avail}
              /\ Booking' \subseteq Booking
       /\ \A r \in ReserveCalls :
            ( /\ reserve[r].pc # "done" /\ reserve'[r].pc = "done"
              /\ reserve'[r].error = "This time slot is already booked" ) =>
              \E a \in Availability, b \in Booking :
                /\ b.availability = a.id
                /\ a.consultant = reserve'[r].pk /\ a.date = reserve'[r].date
                /\ a.start_time = reserve'[r].start_time
                /\ a.end_time = reserve'[r].end_time]_vars

\* C22 witness: a slot was booked, then deleted with its Booking, then
\* created and booked again: the first call's row and Booking are gone, the
\* second call, for the same tuple, holds a Booking on the row that is there.
C22_Witness ==
    \E r, q \in ReserveCalls, d \in DeleteCalls :
      /\ r # q
      /\ del[d].pc = "done" /\ del[d].status = HTTP_204_NO_CONTENT
      /\ reserve[r].pc = "done" /\ reserve[r].status = HTTP_201_CREATED
      /\ reserve[q].pc = "done" /\ reserve[q].status = HTTP_201_CREATED
      /\ SameSlot(reserve[r], reserve[q].pk, reserve[q].date,
                  reserve[q].start_time, reserve[q].end_time)
      /\ SameSlot(reserve[r], del[d].pk, del[d].date, del[d].start_time,
                  del[d].end_time)
      /\ reserve[r].slot \notin AvailIds
      /\ \A b \in Booking : b.id # reserve[r].booking
      /\ reserve[q].slot \in AvailIds
      /\ \E b \in Booking :
           b.id = reserve[q].booking /\ b.availability = reserve[q].slot
      /\ Cardinality(Booking) = 1

====
